---- MODULE Spec2Model ----
(***************************************************************************)
(* gssh: a wrapper around `gcloud compute ssh`.  The repository holds four *)
(* generations of the command:                                             *)
(*   "regex"   src/main.go 1-282            run(hostname, filter, ...)     *)
(*   "names"   src/main.go 284-421          run(vmFilter, user), names     *)
(*   "labels"  src/unnamed/part_001 1-143   run(vmFilter, user), labels    *)
(*   "prefix"  src/unnamed/part_001 145-408 run(vmFilter, user, usePrev)   *)
(* A Go string is a sequence of one-character strings.                     *)
(***************************************************************************)
EXTENDS Integers, Sequences, FiniteSets, TLC

VARIABLES variant, pc, hostname, flagFilter, filter, user, usePrev, args,
          home, file, filterExp, loadErr, prev, listed, instances, vms,
          cursor, idx, selected, storeErr, argv, err, calls, exitCode

vars == <<variant, pc, hostname, flagFilter, filter, user, usePrev, args,
          home, file, filterExp, loadErr, prev, listed, instances, vms,
          cursor, idx, selected, storeErr, argv, err, calls, exitCode>>

(***************************************************************************)
(* Bounds of the model.                                                    *)
(***************************************************************************)
MaxInstances == 2
MaxArgs == 2

(***************************************************************************)
(* Strings of the program and of its inputs.                               *)
(***************************************************************************)
Empty == <<>>
Web == <<"w", "e", "b">>
Web1 == <<"w", "e", "b", "-", "1">>
WebCap == <<"W", "e", "b">>
Db == <<"d", "b">>
ZoneUs == <<"p", "/", "z", "/", "u", "s">>
ZoneEu == <<"p", "/", "z", "/", "e", "u">>

\* what `gcloud compute instances list --format=json` can print: objects
\* with a non-empty name and a zone resource path
Pool ==
    { [name |-> Db, zone |-> ZoneUs], [name |-> Web, zone |-> ZoneUs],
      [name |-> Web, zone |-> ZoneEu], [name |-> Web1, zone |-> ZoneEu],
      [name |-> WebCap, zone |-> ZoneUs] }

Listings == UNION { [1..n -> Pool] : n \in 0..MaxInstances }

\* values of -f (a regular expression) and of the positional prefix filter
Filters ==
    { Empty, Web, <<"^", "w", "e", "b", "$">>, <<"(">>, <<"%", "d">>,
      <<"x">> }
\* values of -h
Hostnames == { Empty, Web, <<"w", "e", "b", ".", "1">>, <<"x">> }
Users == { Empty, <<"m", "e">> }
ArgWords == <<<<"l", "s">>, <<"-", "l", "a">>, <<"/">>>>
ArgLists == { SubSeq(ArgWords, 1, n) : n \in 0..MaxArgs }

\* byte value of a character (Go compares strings bytewise)
Code(c) ==
    CASE c = "%" -> 37 [] c = "-" -> 45 [] c = "." -> 46 [] c = "/" -> 47
      [] c = "1" -> 49 [] c = "W" -> 87 [] c = "b" -> 98 [] c = "d" -> 100
      [] c = "e" -> 101 [] c = "p" -> 112 [] c = "s" -> 115 [] c = "u" -> 117
      [] c = "w" -> 119 [] c = "x" -> 120 [] c = "z" -> 122
      [] OTHER -> 0

\* upper case folded to lower case
Fold(c) == IF c = "W" THEN "w" ELSE c

\* a < b with the case of the letters ignored
RECURSIVE LessIgnoreCase(_, _)
LessIgnoreCase(a, b) ==
    IF b = <<>> THEN FALSE
    ELSE IF a = <<>> THEN TRUE
    ELSE IF Code(Fold(Head(a))) # Code(Fold(Head(b)))
         THEN Code(Fold(Head(a))) < Code(Fold(Head(b)))
    ELSE LessIgnoreCase(Tail(a), Tail(b))

\* a < b on Go strings
RECURSIVE Less(_, _)
Less(a, b) ==
    IF b = <<>> THEN FALSE
    ELSE IF a = <<>> THEN TRUE
    ELSE IF Code(Head(a)) # Code(Head(b)) THEN Code(Head(a)) < Code(Head(b))
    ELSE Less(Tail(a), Tail(b))

\* strings.HasPrefix
HasPrefix(s, p) == Len(p) <= Len(s) /\ SubSeq(s, 1, Len(p)) = p

\* strings.Join(a, sep)
RECURSIVE Join(_, _)
Join(a, sep) ==
    IF a = <<>> THEN <<>>
    ELSE IF Len(a) = 1 THEN a[1]
    ELSE a[1] \o sep \o Join(Tail(a), sep)

\* s without its trailing slashes
RECURSIVE StripSlashes(_)
StripSlashes(s) ==
    IF s # <<>> /\ s[Len(s)] = "/" THEN StripSlashes(SubSeq(s, 1, Len(s) - 1))
    ELSE s

\* index of the last slash of s, 0 when it has none
RECURSIVE LastSlash(_, _)
LastSlash(s, i) ==
    IF i = 0 THEN 0 ELSE IF s[i] = "/" THEN i ELSE LastSlash(s, i - 1)

\* instance.TrimZone: filepath.Base(i.Zone)
TrimZone(zone) ==
    IF zone = <<>> THEN <<".">>
    ELSE LET q == StripSlashes(zone)
             r == SubSeq(q, LastSlash(q, Len(q)) + 1, Len(q))
         IN  IF r = <<>> THEN <<"/">> ELSE r

(***************************************************************************)
(* regexp, for the syntax the inputs use: literals, `.', `^', `$' and      *)
(* groups.  Compile rejects unbalanced parentheses.                        *)
(***************************************************************************)
RECURSIVE Balanced(_, _)
Balanced(p, depth) ==
    IF p = <<>> THEN depth = 0
    ELSE IF Head(p) = "(" THEN Balanced(Tail(p), depth + 1)
    ELSE IF Head(p) = ")" THEN depth > 0 /\ Balanced(Tail(p), depth - 1)
    ELSE Balanced(Tail(p), depth)

\* regexp.Compile(expr): the expression, or an error
RegexpCompile(expr) ==
    IF Balanced(expr, 0) THEN [ok |-> TRUE, expr |-> expr]
    ELSE [ok |-> FALSE, expr |-> <<>>]

\* the expression from position i on matches s from position j on
RECURSIVE MatchHere(_, _, _, _)
MatchHere(p, i, s, j) ==
    IF i > Len(p) THEN TRUE
    ELSE IF p[i] = "^" THEN j = 1 /\ MatchHere(p, i + 1, s, j)
    ELSE IF p[i] = "$" THEN j = Len(s) + 1 /\ MatchHere(p, i + 1, s, j)
    ELSE IF p[i] \in {"(", ")"} THEN MatchHere(p, i + 1, s, j)
    ELSE IF p[i] = "." THEN j <= Len(s) /\ MatchHere(p, i + 1, s, j + 1)
    ELSE j <= Len(s) /\ s[j] = p[i] /\ MatchHere(p, i + 1, s, j + 1)

\* (*Regexp).MatchString: an unanchored search
MatchString(p, s) == \E j \in 1..(Len(s) + 1) : MatchHere(p, 1, s, j)

(***************************************************************************)
(* fmt                                                                     *)
(***************************************************************************)
FlagChars == {"#", "0", "+", "-", " "}
Digits == {"0", "1", "2", "3", "4", "5", "6", "7", "8", "9"}

\* first position from i on whose character is not in set
RECURSIVE SkipWhile(_, _, _)
SkipWhile(f, i, set) ==
    IF i <= Len(f) /\ f[i] \in set THEN SkipWhile(f, i + 1, set) ELSE i

\* position of the verb of the directive whose `%' is at i - 1: after the
\* flags, the width, and the precision
VerbAt(f, i) ==
    LET w == SkipWhile(f, SkipWhile(f, i, FlagChars), Digits)
    IN  IF w <= Len(f) /\ f[w] = "." THEN SkipWhile(f, w + 1, Digits) ELSE w

NoVerb == <<"%", "!", "(", "N", "O", "V", "E", "R", "B", ")">>
Missing == <<"(", "M", "I", "S", "S", "I", "N", "G", ")">>

\* fmt.Sprintf(f) with no operands, from position i on
RECURSIVE Format(_, _)
Format(f, i) ==
    IF i > Len(f) THEN <<>>
    ELSE IF f[i] # "%" THEN <<f[i]>> \o Format(f, i + 1)
    ELSE LET k == VerbAt(f, i + 1)
         IN  IF k > Len(f) THEN NoVerb
             ELSE IF f[k] = "%" THEN <<"%">> \o Format(f, k + 1)
             ELSE <<"%", "!", f[k]>> \o Missing \o Format(f, k + 1)

\* fmt.Errorf(msg): msg is the format string
Errorf(msg) == [kind |-> "no VMs found", msg |-> Format(msg, 1)]

NoVMsFound == <<"n", "o", " ", "V", "M", "s", " ", "f", "o", "u", "n", "d">>
ForFilter == <<" ", "f", "o", "r", " ", "f", "i", "l", "t", "e", "r", " ", "'">>

\* the error of run for an empty candidate list (regex and prefix variants)
NoVMsError(f) ==
    Errorf(IF f # <<>> THEN NoVMsFound \o ForFilter \o f \o <<"'">>
           ELSE NoVMsFound)

\* the error of run for an empty candidate list (names and labels variants)
NoVMsErrorPlain == [kind |-> "no VMs found", msg |-> NoVMsFound]

\* an error whose text no property reads
Error(kind) == [kind |-> kind, msg |-> <<>>]
Nil == [kind |-> "nil", msg |-> <<>>]

LabelWidth == 40

\* fmt.Sprintf("%-40s%s", inst.Name, inst.TrimZone())
Label(inst) ==
    LET pad == IF Len(inst.Name) < LabelWidth THEN LabelWidth - Len(inst.Name)
               ELSE 0
    IN  inst.Name \o [i \in 1..pad |-> " "] \o TrimZone(inst.Zone)

(***************************************************************************)
(* encoding/json                                                           *)
(***************************************************************************)
NoInstance == [Name |-> <<>>, Zone |-> <<>>]
\* ~/.gssh.json: no file, a file that is not JSON, or a JSON object with
\* the members keys names
Absent == [kind |-> "absent", keys |-> {}, previous |-> NoInstance]
Malformed == [kind |-> "malformed", keys |-> {}, previous |-> NoInstance]
EmptyObject == [kind |-> "json", keys |-> {}, previous |-> NoInstance]

\* json.Unmarshal(output, &instances), instance{Name, Zone}
UnmarshalInstances(out) ==
    [i \in 1..Len(out) |-> [Name |-> out[i].name, Zone |-> out[i].zone]]

\* json.Unmarshal(output, &instances), instance{Name}
UnmarshalNames(out) == [i \in 1..Len(out) |-> [Name |-> out[i].name]]

\* json.MarshalIndent(conf, "", "  "): the object written to ~/.gssh.json
MarshalConfig(conf) ==
    [kind |-> "json", keys |-> {"previous"},
     previous |-> [Name |-> conf.Previous.Name, Zone |-> conf.Previous.Zone]]

\* json.Unmarshal(b, &conf): a key the object lacks leaves the zero value
UnmarshalConfig(obj) ==
    IF "previous" \in obj.keys
    THEN [Previous |-> [Name |-> obj.previous.Name, Zone |-> obj.previous.Zone]]
    ELSE [Previous |-> NoInstance]

(***************************************************************************)
(* Sorting, filtering, selecting                                           *)
(***************************************************************************)
\* the places of the sorted t where x can go: behind every element less
\* than x and before every element x is less than
InsertPlaces(t, x) ==
    { k \in 0..Len(t) :
        /\ \A i \in 1..k : ~Less(x.Name, t[i].Name)
        /\ \A i \in (k + 1)..Len(t) : ~Less(t[i].Name, x.Name) }

InsertAt(t, k, x) == SubSeq(t, 1, k) \o <<x>> \o SubSeq(t, k + 1, Len(t))

\* sortInstances: sort.Slice with less = instances[i].Name < instances[j].Name.
\* sort.Slice does not promise where an element lands among the elements
\* it compares equal to, so each such place is an outcome.
RECURSIVE sortInstances(_)
sortInstances(s) ==
    IF s = <<>> THEN {<<>>}
    ELSE UNION { { InsertAt(t, k, s[Len(s)]) : k \in InsertPlaces(t, s[Len(s)]) } :
                 t \in sortInstances(SubSeq(s, 1, Len(s) - 1)) }

\* filterInstances(instances, regex *regexp.Regexp)
filterInstances(insts, regex) ==
    IF regex = <<>> THEN insts
    ELSE LET Keep(inst) == MatchString(regex, inst.Name)
         IN  SelectSeq(insts, Keep)

\* filterInstances(instances, prefix string)
filterInstancesPrefix(insts, prefix) ==
    IF prefix = <<>> THEN insts
    ELSE LET Keep(inst) == HasPrefix(inst.Name, prefix)
         IN  SelectSeq(insts, Keep)

\* what the filter loop of run collects for an instance: its name (names
\* variant) or its label (labels variant)
Item(inst, labelled) == IF labelled THEN Label(inst) ELSE inst.Name

\* the filter loop of run in the names and labels variants, from index i on
RECURSIVE PrefixLoop(_, _, _, _, _)
PrefixLoop(insts, i, vmFilter, acc, labelled) ==
    IF i > Len(insts) THEN acc
    ELSE IF ~HasPrefix(insts[i].Name, vmFilter)
         THEN PrefixLoop(insts, i + 1, vmFilter, acc, labelled)
    ELSE IF vmFilter = insts[i].Name THEN <<Item(insts[i], labelled)>>
    ELSE PrefixLoop(insts, i + 1, vmFilter,
                    Append(acc, Item(insts[i], labelled)), labelled)

vmsNames(insts, vmFilter) == PrefixLoop(insts, 1, vmFilter, <<>>, FALSE)
vmsLabels(insts, vmFilter) == PrefixLoop(insts, 1, vmFilter, <<>>, TRUE)

\* selectInstance without the preselection
selectCursorFirst(insts, p) == 0

\* the cursor loop of selectInstance, 0-based, from index i (1-based) on
RECURSIVE CursorLoop(_, _, _, _)
CursorLoop(insts, p, i, c) ==
    IF i > Len(insts) THEN c
    ELSE CursorLoop(insts, p, i + 1, IF insts[i].Name = p.Name THEN i - 1 ELSE c)

selectCursor(insts, p) == CursorLoop(insts, p, 1, 0)

(***************************************************************************)
(* The config file                                                         *)
(***************************************************************************)
\* loadConfig(): HOME set or not, the file, and whether reading it fails
loadConfig(hm, f, ioerr) ==
    IF ~hm THEN [conf |-> [Previous |-> NoInstance], err |-> Error("HOME env var not present")]
    ELSE IF ioerr THEN [conf |-> [Previous |-> NoInstance], err |-> Error("read config error")]
    ELSE IF f = Absent THEN [conf |-> [Previous |-> NoInstance], err |-> Nil]
    ELSE IF f = Malformed
         THEN [conf |-> [Previous |-> NoInstance], err |-> Error("unmarshal config error")]
    ELSE [conf |-> UnmarshalConfig(f), err |-> Nil]

\* storeConfig(conf): the file afterwards and the error.  os.WriteFile
\* truncates the file on opening it: a write that fails after the open
\* leaves a file that is not JSON.
storeConfig(hm, f, conf, outcome) ==
    IF ~hm THEN [file |-> f, err |-> Error("HOME env var not present")]
    ELSE IF outcome = "open fails" THEN [file |-> f, err |-> Error("write config error")]
    ELSE IF outcome = "write fails"
         THEN [file |-> Malformed, err |-> Error("write config error")]
    ELSE [file |-> MarshalConfig(conf), err |-> Nil]

WriteOutcomes == {"ok", "open fails", "write fails"}

(***************************************************************************)
(* The command line handed to gcloud                                       *)
(***************************************************************************)
Compute == <<"c", "o", "m", "p", "u", "t", "e">>
Ssh == <<"s", "s", "h">>
ZoneFlag == <<"-", "-", "z", "o", "n", "e", "=">>
DashDash == <<"-", "-">>

\* host of run: the name, behind user@ for a non-empty user
Host(u, name) == IF u # <<>> THEN u \o <<"@">> \o name ELSE name

\* sshArgs with the residual arguments appended one by one
sshArgsAppended(inst, u, a) ==
    <<Compute, Ssh, ZoneFlag \o TrimZone(inst.Zone), Host(u, inst.Name)>> \o a

\* cmds[1:] of run in the regex variant
sshArgs(inst, u, a) ==
    <<Compute, Ssh, ZoneFlag \o TrimZone(inst.Zone), Host(u, inst.Name)>>
        \o (IF Len(a) > 0 THEN <<DashDash, Join(a, <<" ">>)>> ELSE <<>>)

\* cmds[1:] of run in the labels and prefix variants
sshArgsZone(inst, u) ==
    <<Compute, Ssh, ZoneFlag \o TrimZone(inst.Zone), Host(u, inst.Name)>>

\* the arguments of exec.Command in the names variant
sshArgsNames(vm, u) == <<Compute, Ssh, Host(u, vm)>>

(***************************************************************************)
(* run, step by step.  pc is the place of the process: "idle" between two  *)
(* invocations, "done" when run has returned, "exited" when the process    *)
(* has ended.  calls lists the external collaborators the invocation has   *)
(* touched so far; exitCode is the exit status, -1 while the process runs. *)
(***************************************************************************)
HasConfigFile(v) == v \in {"regex", "prefix"}

inputs == <<variant, hostname, flagFilter, user, usePrev, args, home,
           exitCode>>
locals == <<filter, filterExp, loadErr, prev, listed, instances, vms, cursor,
            idx, selected, argv>>

Init ==
    /\ variant = "none"
    /\ pc = "idle"
    /\ hostname = <<>> /\ flagFilter = <<>> /\ filter = <<>> /\ user = <<>>
    /\ usePrev = FALSE /\ args = <<>> /\ home = TRUE
    /\ file \in {Absent, Malformed, EmptyObject}
    /\ filterExp = <<>> /\ prev = NoInstance /\ listed = <<>>
    /\ instances = <<>> /\ vms = <<>> /\ cursor = 0 /\ idx = 0
    /\ selected = NoInstance /\ argv = <<>> /\ err = Nil /\ calls = <<>>
    /\ loadErr = Nil /\ storeErr = Nil /\ exitCode = -1

\* run returns e
Finish(e) == pc' = "done" /\ err' = e

\* main of the regex variant calls run(*flagHost, *flagFilter, user, *flagPrev, flag.Args())
MainRegex ==
    /\ pc = "idle"
    /\ \E h \in Hostnames, f \in Filters, u \in Users, p \in BOOLEAN,
          a \in ArgLists, hm \in BOOLEAN :
          /\ variant' = "regex" /\ hostname' = h /\ flagFilter' = f
          /\ filter' = f /\ user' = u /\ usePrev' = p /\ args' = a /\ home' = hm
    /\ pc' = "run"
    /\ UNCHANGED <<exitCode, file, filterExp, loadErr, prev, listed, instances, vms,
                   cursor, idx, selected, storeErr, argv, err, calls>>

\* main of the prefix variant calls run(vmFilter, user, *flagPrev)
MainPrefix ==
    /\ pc = "idle"
    /\ \E f \in Filters, u \in Users, p \in BOOLEAN, hm \in BOOLEAN :
          /\ variant' = "prefix" /\ flagFilter' = f /\ filter' = f
          /\ user' = u /\ usePrev' = p /\ home' = hm
    /\ pc' = "config"
    /\ UNCHANGED <<exitCode, hostname, args, file, filterExp, loadErr, prev, listed,
                   instances, vms, cursor, idx, selected, storeErr, argv, err,
                   calls>>

\* main of the names and labels variants calls run(vmFilter, user)
MainLoop ==
    /\ pc = "idle"
    /\ \E v \in {"names", "labels"}, f \in Filters, u \in Users :
          /\ variant' = v /\ flagFilter' = f /\ filter' = f /\ user' = u
    /\ pc' = "config"
    /\ UNCHANGED <<exitCode, hostname, usePrev, args, home, file, filterExp, loadErr,
                   prev, listed, instances, vms, cursor, idx, selected,
                   storeErr, argv, err, calls>>

\* bothFlags with the check of -h against -f left out
bothFlagsUnchecked(h, f) == FALSE

\* the flags run of the regex variant rejects before compiling the filter
bothFlags(h, f) == h # <<>> /\ f # <<>>

\* run of the regex variant up to the compiled filter: the error, the
\* local filter and filterExp
runFilter(h, f) ==
    IF bothFlags(h, f)
    THEN [err |-> Error("cannot use both -h and -f flags"), filter |-> f, exp |-> <<>>]
    ELSE LET g == IF h # <<>> THEN <<"^">> \o h \o <<"$">> ELSE f
             re == RegexpCompile(g)
         IN  IF ~re.ok THEN [err |-> Error("invalid filter regex"), filter |-> g, exp |-> <<>>]
             ELSE [err |-> Nil, filter |-> g, exp |-> re.expr]

RunValidate ==
    /\ pc = "run"
    /\ LET r == runFilter(hostname, flagFilter)
       IN  /\ filter' = r.filter
           /\ filterExp' = r.exp
           /\ IF r.err # Nil THEN Finish(r.err)
              ELSE pc' = "config" /\ err' = err
    /\ UNCHANGED <<inputs, file, loadErr, prev, listed, instances, vms,
                   cursor, idx, selected, storeErr, argv, calls>>

\* the external collaborators, as calls records them
ConfigGet == "gcloud config get"
ReadFile == "read ~/.gssh.json"
InstancesList == "gcloud compute instances list"
Chooser == "promptui select"
WriteFile == "write ~/.gssh.json"
ComputeSsh == "gcloud compute ssh"

\* the properties run reads with gcloud config get
ConfigProperties(v) == IF v = "names" THEN 2 ELSE 1

\* getGcloudConfig / getConfig, once per property, until one fails
GetGcloudConfig ==
    /\ pc = "config"
    /\ \E failAt \in 0..ConfigProperties(variant) :
          IF failAt > 0
          THEN /\ calls' = calls \o [i \in 1..failAt |-> ConfigGet]
               /\ Finish(Error("gcloud config get error"))
          ELSE /\ calls' = calls \o [i \in 1..ConfigProperties(variant) |-> ConfigGet]
               /\ pc' = IF HasConfigFile(variant) THEN "load" ELSE "list"
               /\ err' = err
    /\ UNCHANGED <<inputs, locals, file, storeErr>>

\* run: a loadConfig error ends the run only with -p
loadFatal(e, p) == e # Nil /\ p

\* run: var prev instance; if conf, err := loadConfig(); ...
LoadConfig ==
    /\ pc = "load"
    /\ \E ioerr \in BOOLEAN :
          LET r == loadConfig(home, file, ioerr)
          IN  /\ calls' = IF home THEN Append(calls, ReadFile) ELSE calls
              /\ loadErr' = r.err
              /\ prev' = IF r.err = Nil THEN r.conf.Previous ELSE prev
              /\ IF loadFatal(r.err, usePrev)
                 THEN Finish(Error("cannot connect to previous VM"))
                 ELSE pc' = "acquire" /\ err' = err
    /\ UNCHANGED <<inputs, file, filter, filterExp, listed, instances, vms,
                   cursor, idx, selected, storeErr, argv>>

\* how the listing command can end: a failed exit, output that is not a
\* JSON array, or a listing
ListOutcomes == {"exit error", "bad json", "ok"}

\* run of the regex and prefix variants from filterInstances up to the
\* selection, for the candidates insts before filtering
Candidates(insts) ==
    LET filtered == IF variant = "regex" THEN filterInstances(insts, filterExp)
                    ELSE filterInstancesPrefix(insts, filter)
    IN  /\ instances' = filtered
        /\ IF Len(filtered) = 0
           THEN Finish(NoVMsError(filter)) /\ selected' = selected
           ELSE IF Len(filtered) > 1
           THEN IF variant = "regex" /\ hostname # <<>>
                THEN Finish(Error("multiple VMs found for hostname")) /\ selected' = filtered[1]
                ELSE pc' = "select" /\ err' = err /\ selected' = filtered[1]
           ELSE pc' = "store" /\ err' = err /\ selected' = filtered[1]

\* run with -p: instances = []instance{prev}
UsePrevious ==
    /\ pc = "acquire" /\ usePrev
    /\ Candidates(<<prev>>)
    /\ UNCHANGED <<inputs, file, filter, filterExp, loadErr, prev, listed, vms,
                   cursor, idx, storeErr, argv, calls>>

\* run without -p: list, unmarshal, sortInstances, filterInstances
ListInstances ==
    /\ pc = "acquire" /\ ~usePrev
    /\ calls' = Append(calls, InstancesList)
    /\ \E end \in ListOutcomes, out \in Listings :
          IF end = "exit error"
          THEN Finish(Error("gcloud compute instances list error"))
               /\ UNCHANGED <<listed, instances, selected>>
          ELSE IF end = "bad json"
          THEN Finish(Error("unmarshal instances error"))
               /\ UNCHANGED <<listed, instances, selected>>
          ELSE /\ listed' = UnmarshalInstances(out)
               /\ \E sorted \in sortInstances(UnmarshalInstances(out)) :
                     Candidates(sorted)
    /\ UNCHANGED <<inputs, file, filter, filterExp, loadErr, prev, vms, cursor,
                   idx, storeErr, argv>>

\* run of the names and labels variants: list, unmarshal, the filter loop
ListAndLoop ==
    /\ pc = "list"
    /\ calls' = Append(calls, InstancesList)
    /\ \E end \in ListOutcomes, out \in Listings :
          IF end = "exit error"
          THEN Finish(Error("gcloud compute instances list error"))
               /\ UNCHANGED <<listed, instances, vms, selected>>
          ELSE IF end = "bad json"
          THEN Finish(Error("unmarshal instances error"))
               /\ UNCHANGED <<listed, instances, vms, selected>>
          ELSE LET insts == IF variant = "names" THEN UnmarshalNames(out)
                            ELSE UnmarshalInstances(out)
                   found == IF variant = "names" THEN vmsNames(insts, filter)
                            ELSE vmsLabels(insts, filter)
               IN  /\ listed' = insts
                   /\ instances' = insts
                   /\ vms' = found
                   /\ selected' = selected
                   /\ IF Len(found) = 0 THEN Finish(NoVMsErrorPlain)
                      ELSE IF Len(found) = 1 THEN pc' = "ssh" /\ err' = err
                      ELSE pc' = "select" /\ err' = err
    /\ UNCHANGED <<inputs, file, filter, filterExp, loadErr, prev, cursor, idx,
                   storeErr, argv>>

\* selectInstance(instances, prev): the cursor, then the chooser, which
\* returns an index or fails
SelectInstance ==
    /\ pc = "select" /\ HasConfigFile(variant)
    /\ cursor' = selectCursor(instances, prev)
    /\ calls' = Append(calls, Chooser)
    /\ \E r \in {-1} \cup (0..(Len(instances) - 1)) :
          IF r = -1
          THEN Finish(Error("select instance error")) /\ UNCHANGED <<idx, selected>>
          ELSE idx' = r /\ selected' = instances[r + 1] /\ pc' = "store" /\ err' = err
    /\ UNCHANGED <<inputs, file, filter, filterExp, loadErr, prev, listed,
                   instances, vms, storeErr, argv>>

\* selector.Run() of the names and labels variants over vms
SelectVm ==
    /\ pc = "select" /\ ~HasConfigFile(variant)
    /\ cursor' = 0
    /\ calls' = Append(calls, Chooser)
    /\ \E r \in {-1} \cup (0..(Len(vms) - 1)) :
          IF r = -1
          THEN Finish(Error("selector error")) /\ idx' = idx
          ELSE idx' = r /\ pc' = "ssh" /\ err' = err
    /\ UNCHANGED <<inputs, file, filter, filterExp, loadErr, prev, listed,
                   instances, vms, selected, storeErr, argv>>

\* a storeConfig error returned instead of logged
storeFatalReturned(e) == e # Nil

\* run: a storeConfig error is logged with slog.Debug and ends nothing
storeFatal(e) == FALSE

\* run: if err = storeConfig(config{Previous: selected}); err != nil { ... }
StoreConfig ==
    /\ pc = "store"
    /\ \E outcome \in WriteOutcomes :
          LET r == storeConfig(home, file, [Previous |-> selected], outcome)
          IN  /\ file' = r.file
              /\ storeErr' = r.err
              /\ IF storeFatal(r.err) THEN Finish(r.err)
                 ELSE pc' = "ssh" /\ err' = err
    /\ calls' = IF home THEN Append(calls, WriteFile) ELSE calls
    /\ UNCHANGED <<inputs, locals>>

\* the instance run connects to, and the arguments it hands to gcloud
sshTarget ==
    IF variant = "names" THEN [Name |-> vms[idx + 1]]
    ELSE IF variant = "labels" THEN instances[idx + 1]
    ELSE selected

sshCommand ==
    IF variant = "regex" THEN sshArgs(sshTarget, user, args)
    ELSE IF variant = "names" THEN sshArgsNames(sshTarget.Name, user)
    ELSE sshArgsZone(sshTarget, user)

\* run: exec.Command(cmds[0], cmds[1:]...).Run()
RunSsh ==
    /\ pc = "ssh"
    /\ selected' = sshTarget
    /\ argv' = sshCommand
    /\ calls' = Append(calls, ComputeSsh)
    /\ \E ok \in BOOLEAN :
          Finish(IF ok THEN Nil ELSE Error("gcloud compute ssh exit status"))
    /\ UNCHANGED <<inputs, file, filter, filterExp, loadErr, prev, listed,
                   instances, vms, cursor, idx, storeErr>>

\* the exit status of main for the error e of run: the regex variant calls
\* os.Exit(1) on an error, the other variants log it and return
exitStatus(v, e) == IF v = "regex" /\ e # Nil THEN 1 ELSE 0

\* main after run has returned
MainReturn ==
    /\ pc = "done"
    /\ pc' = "exited"
    /\ exitCode' = exitStatus(variant, err)
    /\ UNCHANGED <<variant, hostname, flagFilter, user, usePrev, args, home,
                   locals, file, storeErr, err, calls>>

\* the process is gone; the file stays
Exit ==
    /\ pc = "exited"
    /\ pc' = "idle"
    /\ variant' = "none"
    /\ hostname' = <<>> /\ flagFilter' = <<>> /\ filter' = <<>> /\ user' = <<>>
    /\ usePrev' = FALSE /\ args' = <<>> /\ home' = TRUE
    /\ filterExp' = <<>> /\ prev' = NoInstance /\ listed' = <<>>
    /\ instances' = <<>> /\ vms' = <<>> /\ cursor' = 0 /\ idx' = 0
    /\ selected' = NoInstance /\ argv' = <<>> /\ err' = Nil /\ calls' = <<>>
    /\ loadErr' = Nil /\ storeErr' = Nil /\ exitCode' = -1
    /\ UNCHANGED file

Next ==
    \/ MainRegex \/ MainPrefix \/ MainLoop \/ RunValidate \/ GetGcloudConfig
    \/ LoadConfig \/ UsePrevious \/ ListInstances \/ ListAndLoop
    \/ SelectInstance \/ SelectVm \/ StoreConfig \/ RunSsh \/ MainReturn
    \/ Exit

Spec == Init /\ [][Next]_vars

\* the same program started with no config file
InitFresh == Init /\ file = Absent

SpecFresh == InitFresh /\ [][Next]_vars

(***************************************************************************)
(* Properties                                                              *)
(***************************************************************************)
Called(c) == \E i \in 1..Len(calls) : calls[i] = c

\* sub occurs in s
Contains(s, sub) ==
    \E i \in 0..(Len(s) - Len(sub)) : SubSeq(s, i + 1, i + Len(sub)) = sub

\* C1: in the regex variant, with both -h and -f given, or with a filter
\* that does not compile, run touches no external collaborator (no gcloud
\* call, no read or write of the config file, no chooser) and returns an
\* error.
C1_InputErrorBeforeCollaborators ==
    (/\ variant = "regex"
     /\ \/ hostname # <<>> /\ flagFilter # <<>>
        \/ ~RegexpCompile(IF hostname # <<>> THEN <<"^">> \o hostname \o <<"$">>
                          ELSE flagFilter).ok)
    => /\ calls = <<>>
       /\ pc \in {"run", "done", "exited"}
       /\ pc \in {"done", "exited"} => err # Nil

C1_Witness ==
    /\ variant = "regex" /\ pc = "done"
    /\ hostname = Web /\ flagFilter = <<"(">>
    /\ err = Error("cannot use both -h and -f flags")
    /\ calls = <<>>

\* C2: in previous-only mode, when loadConfig found no previous instance
\* (no file, or a file without a previous record), run returns an error
\* and has neither written the config file nor run gcloud compute ssh.
C2_NoPreviousIsFatal ==
    (/\ HasConfigFile(variant) /\ usePrev /\ pc = "done"
     /\ prev = NoInstance)
    => /\ err # Nil
       /\ ~Called(WriteFile)
       /\ ~Called(ComputeSsh)

UniqueNames(s) ==
    \A i, j \in 1..Len(s) : i # j => s[i].Name # s[j].Name

\* the candidate list is the instance inst alone
SoleCandidate(inst) ==
    IF variant = "names" THEN vms = <<inst.Name>>
    ELSE IF variant = "labels" THEN vms = <<Label(inst)>>
    ELSE instances = <<inst>>

\* C3: in every prefix-matching variant (names, labels, prefix), for a
\* listing with unique names and a filter equal to the full name of one
\* listed instance, the candidate list is that instance alone.
C3_ExactNameAlone ==
    \A i \in 1..Len(listed) :
        (/\ variant \in {"names", "labels", "prefix"}
         /\ UniqueNames(listed)
         /\ listed[i].Name = filter)
        => SoleCandidate(listed[i])

\* The same for the two variants whose loop stops at the exact name.
ExactNameAloneInLoop ==
    \A i \in 1..Len(listed) :
        (/\ variant \in {"names", "labels"}
         /\ UniqueNames(listed)
         /\ listed[i].Name = filter)
        => SoleCandidate(listed[i])

ExactNameAloneInLoopWitness ==
    /\ variant = "labels" /\ filter = Web /\ Len(listed) = 2
    /\ listed[1].Name = Web1 /\ listed[2].Name = Web
    /\ vms = <<Label(listed[2])>>

\* the indices (1-based) of the candidates named like prev
Remembered == { i \in 1..Len(instances) : instances[i].Name = prev.Name }

\* C4: when selectInstance has run the chooser, there are at least two
\* candidates; if candidates are named prev.Name the cursor is the index of
\* one of them (the last one), and the cursor is 0 if none is.
C4_CursorAtPrevious ==
    (HasConfigFile(variant) /\ Called(Chooser))
    => /\ Len(instances) >= 2
       /\ IF Remembered # {}
          THEN /\ cursor + 1 \in Remembered
               /\ \A i \in Remembered : i <= cursor + 1
          ELSE cursor = 0

C4_Witness ==
    /\ variant = "regex" /\ Called(Chooser)
    /\ Len(instances) = 2 /\ prev.Name = Web /\ instances[2].Name = Web
    /\ instances[1].Name # Web
    /\ cursor = 1

\* C5: when filtering leaves no candidate (regex and prefix variants), run
\* returns an error whose text contains "no VMs found" and, for a non-empty
\* filter, the filter; the config file is not written and ssh is not run.
C5_NoVMsNamesFilter ==
    (/\ HasConfigFile(variant) /\ pc = "done"
     /\ Called(InstancesList) \/ usePrev
     /\ err.kind = "no VMs found")
    => /\ Contains(err.msg, NoVMsFound)
       /\ filter # <<>> => Contains(err.msg, filter)
       /\ ~Called(WriteFile) /\ ~Called(ComputeSsh)

\* C6: a storeConfig error does not end the run: ssh is run with the
\* selected instance and only ssh decides what run returns.  Without -p a
\* loadConfig error does not end the run either: prev stays empty and the
\* run goes on to list the instances.
C6_PersistenceNotFatal ==
    /\ (HasConfigFile(variant) /\ storeErr # Nil)
       => /\ pc \in {"ssh", "done", "exited"}
          /\ pc \in {"done", "exited"}
             => /\ Called(ComputeSsh)
                /\ argv[Len(argv) - (IF variant = "regex" /\ args # <<>> THEN 2 ELSE 0)]
                     = Host(user, selected.Name)
                /\ err \in {Nil, Error("gcloud compute ssh exit status")}
    /\ (HasConfigFile(variant) /\ ~usePrev /\ loadErr # Nil)
       => /\ prev = NoInstance
          /\ pc # "load"
          /\ pc \in {"done", "exited"} => Called(InstancesList)

C6_Witness ==
    /\ variant = "regex" /\ pc = "done" /\ ~usePrev
    /\ loadErr = Error("unmarshal config error")
    /\ storeErr = Error("write config error")
    /\ Called(ComputeSsh) /\ err = Nil
    /\ selected.Name = Web1

\* the listed instances named name
Named(name) == { i \in 1..Len(listed) : listed[i].Name = name }

\* C7: with -h, a run that reaches ssh connects to the instance named
\* exactly hostname; when no listed instance or more than one has that
\* name, run returns an error and does not run ssh.
C7_ExactHost ==
    (variant = "regex" /\ hostname # <<>> /\ pc = "done")
    => /\ Called(ComputeSsh) => selected.Name = hostname
       /\ (Called(InstancesList) /\ err.kind # "gcloud compute instances list error"
           /\ err.kind # "unmarshal instances error"
           /\ Cardinality(Named(hostname)) # 1)
          => err # Nil /\ ~Called(ComputeSsh)

\* the part of z behind its last slash, all of z when it has none
LastSegment(z) ==
    LET k == CHOOSE k \in 0..Len(z) :
                 /\ k = 0 \/ z[k] = "/"
                 /\ \A i \in (k + 1)..Len(z) : z[i] # "/"
    IN  SubSeq(z, k + 1, Len(z))

\* the words of a (not empty), one space between two words
RECURSIVE Spaced(_)
Spaced(a) ==
    IF Len(a) = 1 THEN a[1]
    ELSE Spaced(SubSeq(a, 1, Len(a) - 1)) \o <<" ">> \o a[Len(a)]

\* T of C8: the name, behind user@ unless the user is empty
Target == IF user = <<>> THEN selected.Name ELSE user \o <<"@">> \o selected.Name

\* C8 as claimed: the arguments handed to gcloud are compute, ssh,
\* --zone=Z, T and then the residual arguments, Z the trailing path segment
\* of the Zone.
C8_ArgvThenResidual ==
    (variant = "regex" /\ Called(ComputeSsh))
    => argv = <<Compute, Ssh, ZoneFlag \o LastSegment(selected.Zone), Target>> \o args

\* C8 as amended: the arguments handed to gcloud are compute, ssh,
\* --zone=Z, T and then, when there are residual arguments, "--" and one
\* argument holding them joined by single spaces; Z is the trailing path
\* segment of the Zone, and "." for an empty Zone.
C8_ArgvThenJoined ==
    (variant = "regex" /\ Called(ComputeSsh))
    => argv = <<Compute, Ssh,
                ZoneFlag \o (IF selected.Zone = <<>> THEN <<".">>
                             ELSE LastSegment(selected.Zone)),
                Target>>
              \o (IF args = <<>> THEN <<>> ELSE <<DashDash, Spaced(args)>>)

C8_Witness ==
    /\ variant = "regex" /\ pc = "done" /\ Called(ComputeSsh)
    /\ user = <<"m", "e">> /\ selected = [Name |-> Web1, Zone |-> ZoneEu]
    /\ Len(args) = 2
    /\ argv = <<Compute, Ssh, <<"-", "-", "z", "o", "n", "e", "=", "e", "u">>,
                <<"m", "e", "@", "w", "e", "b", "-", "1">>, DashDash,
                <<"l", "s", " ", "-", "l", "a">>>>

Bijections(n) ==
    { p \in [1..n -> 1..n] : \A i, j \in 1..n : i # j => p[i] # p[j] }

\* the place of a listed name in the bytewise order of the names
Rank(name) ==
    CASE name = WebCap -> 1 [] name = Db -> 2 [] name = Web -> 3
      [] name = Web1 -> 4 [] OTHER -> 0

Ascending(s) ==
    \A i, j \in 1..Len(s) : i < j => Rank(s[i].Name) <= Rank(s[j].Name)

\* a fresh listing (no -p) was made and not filtered (no -h, empty filter)
FreshUnfiltered ==
    /\ HasConfigFile(variant) /\ ~usePrev
    /\ hostname = <<>> /\ flagFilter = <<>>
    /\ listed # <<>>

\* C9 as claimed: the candidates are a permutation of the listing,
\* ascending by Name, instances of equal Name in their listed order.
C9_SortedStable ==
    FreshUnfiltered
    => /\ Len(instances) = Len(listed)
       /\ Ascending(instances)
       /\ \E p \in Bijections(Len(listed)) :
             /\ \A k \in 1..Len(listed) : instances[k] = listed[p[k]]
             /\ \A k, l \in 1..Len(listed) :
                   (k < l /\ instances[k].Name = instances[l].Name) => p[k] < p[l]

\* C9 as amended: the candidates are a permutation of the listing,
\* ascending by Name under the bytewise (case-sensitive) order.
C9_SortedPermutation ==
    FreshUnfiltered
    => /\ Len(instances) = Len(listed)
       /\ Ascending(instances)
       /\ \E p \in Bijections(Len(listed)) :
             \A k \in 1..Len(listed) : instances[k] = listed[p[k]]

C9_Witness ==
    /\ FreshUnfiltered /\ variant = "regex"
    /\ listed = <<[Name |-> Web, Zone |-> ZoneUs], [Name |-> WebCap, Zone |-> ZoneUs]>>
    /\ instances = <<[Name |-> WebCap, Zone |-> ZoneUs], [Name |-> Web, Zone |-> ZoneUs]>>

\* C10: starting without a config file, whenever the file holds JSON it
\* holds a previous record with a non-empty Name and a non-empty Zone.
C10_PreviousComplete ==
    file.kind = "json"
    => /\ "previous" \in file.keys
       /\ file.previous.Name # <<>>
       /\ file.previous.Zone # <<>>

\* C11: in every variant, once the process has ended its exit status is 0
\* exactly when run returned no error, and non-zero when run returned one.
C11_ExitCodeReflectsError ==
    pc = "exited" => (exitCode = 0 <=> err = Nil)

\* does inst pass the filter of the running variant
PassesFilter(inst) ==
    IF variant = "regex"
    THEN filterExp = <<>> \/ MatchString(filterExp, inst.Name)
    ELSE HasPrefix(inst.Name, filter)

\* is inst the k-th entry of the filtered candidate list: the list of
\* instances (regex, prefix), of names (names) or of labels (labels)
CandidateAt(inst, k) ==
    IF HasConfigFile(variant)
    THEN k \in 1..Len(instances) /\ instances[k] = inst
    ELSE /\ k \in 1..Len(vms)
         /\ vms[k] = (IF variant = "names" THEN inst.Name ELSE Label(inst))

CandidateCount == IF HasConfigFile(variant) THEN Len(instances) ELSE Len(vms)

\* C12: in every variant, the instance handed to ssh passed the filter and
\* is the sole candidate when one matched, else the candidate at the index
\* the chooser returned.
C12_ConnectsToCandidate ==
    (pc \in {"done", "exited"} /\ Called(ComputeSsh))
    => /\ PassesFilter(selected)
       /\ CandidateAt(selected, IF CandidateCount = 1 THEN 1 ELSE idx + 1)
====
